---- MODULE Spec2Model ----
(***************************************************************************)
(* A model of the muonic DAQ connection and provider layer:                *)
(*   muonic/daq/provider.py           BaseDAQProvider, DAQProvider,        *)
(*                                    DAQClient                            *)
(*   muonicPro/daq/api/connection.py  BaseDAQConnection, DAQConnection,    *)
(*                                    DAQServer                            *)
(*   muonic/gui/plot_canvases.py      ScalarsCanvas                        *)
(*   muonic/util/helpers.py           WrappedFile                          *)
(*                                                                         *)
(* Characters are their code points (bytes before decode()), a string is a *)
(* sequence of them.                                                       *)
(***************************************************************************)
EXTENDS Integers, Sequences, FiniteSets, TLC

VARIABLES
    t_in,       \* text under test: the argument of the pure text functions
    t_op,       \* which text function was applied ("init" before any)
    t_out,      \* its result
    in_queue,   \* DAQProvider.in_queue: commands put, oldest first
    in_flushed, \* how many items of in_queue its feeder has made gettable
    out_queue,  \* DAQProvider.out_queue: lines pushed by the reader
    out_flushed, \* how many items of out_queue its feeder has made gettable
    rx,         \* bytes the card has sent that the serial driver holds
    emitted,    \* number of records the card has started to send
    half,       \* the unsent rest of a record the card is in the middle of
    nlinks,     \* serial.Serial objects opened so far (the newest is nlinks)
    r_port,     \* reader process: its self.serial_port (a link number)
    r_open,     \* reader process: is its self.serial_port open
    w_port,     \* writer process: its self.serial_port (a link number)
    pc_r,       \* reader process: position in DAQConnection.read
    pc_w,       \* writer process: position in DAQConnection.write
    running_r,  \* reader process: its self.running
    acq,        \* reader process: the locals and the log of its running get_serial_port call
    running_w,  \* writer process: its self.running
    exc_r,      \* the exception that left DAQConnection.read, "" if none
    exc_w,      \* the exception that left DAQConnection.write, "" if none
    sleep_time, \* read()'s local sleep_time, <<n, k>> for n / 2^k ms
    slept,      \* the argument of the reader's last sleep(), same encoding
    qsize_ok,   \* platform: does Queue.qsize() work (it raises on macOS)
    written,    \* history: the writes that reached a link, oldest first
    lost,       \* history: commands taken off in_queue and never written
    pushed,     \* history: every item the reader put on out_queue
    delivered,  \* history: what each completed get() returned
    got,        \* the outcome of the last get(), a value or an exception
    nput,       \* history: number of put() calls
    faults,     \* history: number of I/O faults injected so far
    errors,     \* history: number of logger.error("IOError") calls
    warnings,   \* history: number of logger.warning calls
    sock_up,    \* the PAIR socket: messages sent by the client, not yet received
    sock_down,  \* the PAIR socket: messages sent to the client, not yet received
    pc_s,       \* server: position in DAQServer.serve
    ctor,       \* is zmq importable, how constructing the client, the server and
                \* the connection ended ("" while it has not), and the sim
                \* argument the provider was constructed with
    canvas,     \* the ScalarsCanvas of the application: its fields, and the
                \* series its last reset() or update_plot() handed to ax.plot
    wrapped     \* WrappedFile: the class attribute open_files, the instances
                \* constructed, and the exception the last call raised

text_vars == <<t_in, t_op, t_out>>
queue_vars == <<in_queue, in_flushed, out_queue, out_flushed>>
card_vars == <<rx, emitted, half>>
reader_vars == <<r_port, r_open, running_r, acq, pc_r, exc_r, sleep_time, slept, pushed, errors>>
app_vars == <<delivered, got, nput, warnings>>
writer_vars == <<w_port, running_w, pc_w, exc_w, written, lost>>
net_vars == <<sock_up, sock_down, pc_s, ctor>>
vars == <<t_in, t_op, t_out, in_queue, in_flushed, out_queue, out_flushed,
          rx, emitted, half, nlinks, r_port, r_open, w_port, running_r, acq,
          running_w, pc_r, pc_w,
          exc_r, exc_w, sleep_time, slept, qsize_ok, written, lost, pushed,
          delivered, got, nput, faults, errors, warnings,
          sock_up, sock_down, pc_s, ctor, canvas, wrapped>>

----------------------------------------------------------------------------
(* Bounds of the model *)

MaxLen == 3      \* longest text given to the pure text functions
MaxEmit == 2     \* records the card sends
MaxPut == 2      \* commands the application puts
MaxFaults == 1   \* I/O faults injected
MaxTries == 2    \* failed open attempts of one get_serial_port call
MaxExp == 7      \* largest k of a sleep_time n / 2^k where the backoff is studied
MaxExpShort == 0 \* largest k of a sleep_time n / 2^k elsewhere
MaxLength == 2   \* largest max_length a ScalarsCanvas is constructed with
MaxUpdates == 4  \* update_plot calls
MaxInstances == 3 \* WrappedFile instances constructed

----------------------------------------------------------------------------
(* Characters *)

LF == 10
CR == 13

\* The characters the pure text functions are tried on: TAB, LF, VT, CR,
\* space, the comma (inside the range "+" to "."), ";" and "[" (outside the
\* grammar), the letter "a" and the byte 255.
TextAlphabet == {9, LF, 11, CR, 32, 44, 59, 91, 97, 255}

RECURSIVE SeqsUpTo(_, _)
SeqsUpTo(S, n) ==
    IF n = 0 THEN {<<>>}
    ELSE LET shorter == SeqsUpTo(S, n - 1)
         IN  shorter \cup {Append(s, c) : s \in {x \in shorter : Len(x) = n - 1}, c \in S}

----------------------------------------------------------------------------
(* Return values *)

\* kind is "None", "str" or the class of the exception raised; val the text
\* returned; msg the argument an exception was raised with.
None == [kind |-> "None", val |-> <<>>, msg |-> ""]
Str(s) == [kind |-> "str", val |-> s, msg |-> ""]
Raised(e) == [kind |-> e, val |-> <<>>, msg |-> ""]
RaisedWith(e, msg) == [kind |-> e, val |-> <<>>, msg |-> msg]

----------------------------------------------------------------------------
(* BaseDAQProvider.LINE_PATTERN and _validate_line *)

\* The character class [a-zA-Z0-9+-.,:()=$/#?!%_@*|~' ]: three letter and digit
\* ranges, the range from "+" to ".", and the single characters after it.
InClass(c) ==
    \/ c \in 97..122
    \/ c \in 65..90
    \/ c \in 48..57
    \/ c \in 43..46
    \/ c \in {44, 58, 40, 41, 61, 36, 47, 35, 63, 33, 37, 95, 64, 42, 124, 126, 39, 32}

\* "$" without re.MULTILINE: the end of the string, or just before a newline
\* that is the last character.
AtDollar(s, j) ==
    \/ j = Len(s)
    \/ j = Len(s) - 1 /\ s[Len(s)] = LF

PatternMatchUnanchored(s) ==
    \E i \in 0..Len(s) : \A k \in 1..i : InClass(s[k])

\* LINE_PATTERN.match(s) is not None: s[1..i] in the class, s[i+1..j] a run of
\* "\n" and "\r", and "$" matches at j.
PatternMatch(s) ==
    \E i \in 0..Len(s) : \E j \in i..Len(s) :
        /\ \A k \in 1..i : InClass(s[k])
        /\ \A k \in (i + 1)..j : s[k] \in {LF, CR}
        /\ AtDollar(s, j)

\* _validate_line(line): None (and one warning) if the pattern does not match.
ValidateLine(line) == IF PatternMatch(line) THEN Str(line) ELSE None
ValidateWarningsNever(line) == 0

ValidateWarnings(line) == IF PatternMatch(line) THEN 0 ELSE 1

----------------------------------------------------------------------------
(* readline().strip().decode() of DAQConnection.read *)

\* The bytes that bytes.strip() removes from both ends.
IsSpace(c) == c \in {32, 9, LF, CR, 11, 12}

RECURSIVE LStrip(_)
LStrip(s) == IF s # <<>> /\ IsSpace(Head(s)) THEN LStrip(Tail(s)) ELSE s

RECURSIVE RStrip(_)
RStrip(s) ==
    IF s # <<>> /\ IsSpace(s[Len(s)]) THEN RStrip(SubSeq(s, 1, Len(s) - 1)) ELSE s

StripRightOnly(s) == RStrip(s)

Strip(s) == LStrip(RStrip(s))

\* bytes.decode(): UTF-8. Every byte below 128 is the character of the same
\* code; the byte 255 is in no UTF-8 text and raises UnicodeDecodeError.
Decode(b) ==
    IF \E i \in 1..Len(b) : b[i] >= 128 THEN Raised("UnicodeDecodeError") ELSE Str(b)

\* The item the reader makes of the bytes readline() returned.
ReaderItem(raw) == Decode(Strip(raw))

----------------------------------------------------------------------------
(* The backoff arithmetic of read(): sleep_time is <<n, k>>, the number     *)
(* n / 2^k of milliseconds, kept in lowest terms                            *)

min_sleep_time == 10
max_sleep_time == 200

RECURSIVE Pow2(_)
Pow2(k) == IF k = 0 THEN 1 ELSE 2 * Pow2(k - 1)

RECURSIVE Norm(_, _)
Norm(n, k) == IF k > 0 /\ n % 2 = 0 THEN Norm(n \div 2, k - 1) ELSE <<n, k>>

\* a < b for two such numbers
Less(a, b) == a[1] * Pow2(b[2]) < b[1] * Pow2(a[2])

HalvedNoFloor(v) == Norm(v[1], v[2] + 1)

\* sleep_time = max(sleep_time / 2, min_sleep_time)
Halved(v) ==
    LET h == Norm(v[1], v[2] + 1)
    IN  IF Less(h, <<min_sleep_time, 0>>) THEN <<min_sleep_time, 0>> ELSE h

GrownDouble(v) ==
    LET g == Norm(2 * v[1], v[2])
    IN  IF Less(<<max_sleep_time, 0>>, g) THEN <<max_sleep_time, 0>> ELSE g

\* sleep_time = min(1.5 * sleep_time, max_sleep_time)
Grown(v) ==
    LET g == Norm(3 * v[1], v[2] + 1)
    IN  IF Less(<<max_sleep_time, 0>>, g) THEN <<max_sleep_time, 0>> ELSE g

----------------------------------------------------------------------------
(* The card and the serial driver *)

\* The k-th record the card sends, in one of three shapes: "a<k>\r\n",
\* " ;<k>\n" (a leading space and a character outside the grammar) and
\* "<k>\xff\n" (a byte that is no text).
Shapes == {"plain", "bad", "garbled"}
Record(k, shape) ==
    CASE shape = "plain"   -> <<97, 48 + k, CR, LF>>
      [] shape = "bad"     -> <<32, 59, 48 + k, LF>>
      [] shape = "garbled" -> <<48 + k, 255, LF>>

\* The card sends a whole record.
CardSend(shape) ==
    /\ emitted < MaxEmit
    /\ half = <<>>
    /\ emitted' = emitted + 1
    /\ rx' = rx \o Record(emitted + 1, shape)
    /\ UNCHANGED <<text_vars, net_vars, queue_vars, half, nlinks, reader_vars, writer_vars,
                   qsize_ok, wrapped, canvas, app_vars, faults>>

\* The card sends the first byte of a record and pauses.
CardSendPart ==
    /\ emitted < MaxEmit
    /\ half = <<>>
    /\ emitted' = emitted + 1
    /\ rx' = Append(rx, Head(Record(emitted + 1, "plain")))
    /\ half' = Tail(Record(emitted + 1, "plain"))
    /\ UNCHANGED <<text_vars, net_vars, queue_vars, nlinks, reader_vars, writer_vars,
                   qsize_ok, wrapped, canvas, app_vars, faults>>

\* The card sends the rest of the record it paused in.
CardSendRest ==
    /\ half # <<>>
    /\ rx' = rx \o half
    /\ half' = <<>>
    /\ UNCHANGED <<text_vars, net_vars, queue_vars, emitted, nlinks, reader_vars, writer_vars,
                   qsize_ok, wrapped, canvas, app_vars, faults>>

\* serial_port.inWaiting(): the number of bytes the driver holds.
InWaiting == Len(rx)

\* The position of the first "\n" in s, 0 if there is none.
FirstLF(s) ==
    IF \E i \in 1..Len(s) : s[i] = LF
    THEN CHOOSE i \in 1..Len(s) : s[i] = LF /\ \A j \in 1..(i - 1) : s[j] # LF
    ELSE 0

\* serial_port.readline() with timeout=0.5: the bytes up to and including the
\* first "\n"; with no "\n" in sight when the timeout expires, every byte held.
ReadlineLen(s) == IF FirstLF(s) = 0 THEN Len(s) ELSE FirstLF(s)

----------------------------------------------------------------------------
(* multiprocessing.Queue: put() hands the item to the queue's feeder, which *)
(* makes it gettable later; qsize() counts it from the put()                *)

QueuePutFirst(q, x) == <<x>> \o q

QueuePut(q, x) == Append(q, x)

QueueLast(q) == q[Len(q)]

\* The item get() takes: the oldest.
QueueFirst(q) == Head(q)

\* The feeder of in_queue moves one command into the pipe.
FeedIn ==
    /\ in_flushed < Len(in_queue)
    /\ in_flushed' = in_flushed + 1
    /\ UNCHANGED <<text_vars, net_vars, in_queue, out_queue, out_flushed, card_vars, nlinks,
                   reader_vars, writer_vars, qsize_ok, wrapped, canvas, app_vars, faults>>

\* The feeder of out_queue moves one line into the pipe.
FeedOut ==
    /\ out_flushed < Len(out_queue)
    /\ out_flushed' = out_flushed + 1
    /\ UNCHANGED <<text_vars, net_vars, in_queue, in_flushed, out_queue, card_vars, nlinks,
                   reader_vars, writer_vars, qsize_ok, wrapped, canvas, app_vars, faults>>

----------------------------------------------------------------------------
(* BaseDAQConnection.get_serial_port, as DAQConnection.read calls it *)

\* The duration of sleep(5), in ms
RetryPause == 5000

\* A call of get_serial_port that has done nothing yet: what its last
\* discovery found ("" before the first, "located" for a hook that ran,
\* "missing"), the open attempts that raised SerialException, the
\* logger.error calls, the ms slept.
AcqIdle == [hook |-> "", failed |-> 0, logged |-> 0, paused |-> 0]

R_AcquireIgnoreMissing(hook) ==
    /\ pc_r = "acquire"
    /\ acq' = [acq EXCEPT !.hook = IF hook = "missing" THEN "missing" ELSE "located"]
    /\ pc_r' = "open"
    /\ UNCHANGED <<text_vars, net_vars, queue_vars, card_vars, nlinks, r_port, r_open, running_r,
                   exc_r, sleep_time, slept, pushed, errors, writer_vars, qsize_ok, wrapped, canvas,
                   app_vars, faults>>

\* The head of a turn of "while not connected": get_dev_path("which_tty_daq")
\* finds the discovery hook on the search path, or raises OSError and the
\* hook is at the packaged place bin/which_tty_daq, or is not there either:
\* raise OSError("Can not find binary which_tty_daq"), which nothing in read()
\* catches while it handles the first error.
R_Acquire(hook) ==
    /\ pc_r = "acquire"
    /\ acq' = [acq EXCEPT !.hook = IF hook = "missing" THEN "missing" ELSE "located"]
    /\ IF hook = "missing"
       THEN /\ pc_r' = "raised"
            /\ exc_r' = "OSError"
       ELSE /\ pc_r' = "open"
            /\ UNCHANGED exc_r
    /\ UNCHANGED <<text_vars, net_vars, queue_vars, card_vars, nlinks, r_port, r_open, running_r,
                   sleep_time, slept, pushed, errors, writer_vars, qsize_ok, wrapped, canvas,
                   app_vars, faults>>

R_OpenGiveUp(opens, flush) ==
    /\ pc_r = "open"
    /\ IF opens
       THEN /\ nlinks' = nlinks + 1
            /\ rx' = IF flush THEN <<>> ELSE rx
            /\ pc_r' = "connected"
            /\ UNCHANGED acq
       ELSE /\ acq.failed < MaxTries
            /\ acq' = [acq EXCEPT !.failed = @ + 1, !.logged = @ + 2]
            /\ pc_r' = "connected"
            /\ UNCHANGED <<nlinks, rx>>
    /\ UNCHANGED <<text_vars, net_vars, queue_vars, emitted, half, r_port, r_open, running_r,
                   exc_r, sleep_time, slept, pushed, errors, writer_vars, qsize_ok, wrapped, canvas,
                   app_vars, faults>>

\* serial_port = serial.Serial(port=dev, ...): the device opens (and the
\* driver may discard the bytes it held), connected = True; or SerialException
\* is raised: logger.error(e); logger.error("Waiting 5 seconds").
R_Open(opens, flush) ==
    /\ pc_r = "open"
    /\ IF opens
       THEN /\ nlinks' = nlinks + 1
            /\ rx' = IF flush THEN <<>> ELSE rx
            /\ pc_r' = "connected"
            /\ UNCHANGED acq
       ELSE /\ acq.failed < MaxTries
            /\ acq' = [acq EXCEPT !.failed = @ + 1, !.logged = @ + 2]
            /\ pc_r' = "pause"
            /\ UNCHANGED <<nlinks, rx>>
    /\ UNCHANGED <<text_vars, net_vars, queue_vars, emitted, half, r_port, r_open, running_r,
                   exc_r, sleep_time, slept, pushed, errors, writer_vars, qsize_ok, wrapped, canvas,
                   app_vars, faults>>

\* sleep(5), then the next turn of "while not connected"
R_Pause ==
    /\ pc_r = "pause"
    /\ acq' = [acq EXCEPT !.paused = @ + RetryPause]
    /\ pc_r' = "acquire"
    /\ UNCHANGED <<text_vars, net_vars, queue_vars, card_vars, nlinks, r_port, r_open, running_r,
                   exc_r, sleep_time, slept, pushed, errors, writer_vars, qsize_ok, wrapped, canvas,
                   app_vars, faults>>

\* "while not connected" ends: return serial_port, which read() assigns to
\* self.serial_port. The call's locals are gone.
R_Return ==
    /\ pc_r = "connected"
    /\ r_port' = nlinks
    /\ r_open' = TRUE
    /\ acq' = AcqIdle
    /\ pc_r' = "loop"
    /\ UNCHANGED <<text_vars, net_vars, queue_vars, card_vars, nlinks, running_r,
                   exc_r, sleep_time, slept, pushed, errors, writer_vars, qsize_ok, wrapped, canvas,
                   app_vars, faults>>

\* BaseDAQConnection.__init__: self.serial_port = self.get_serial_port()
\* inside "try: ... except serial.SerialException: raise SystemError(e)".
\* The call returns the link, and the object is constructed with it; or an
\* exception leaves the call, which leaves __init__ too, a SerialException
\* as SystemError.
NewConnection ==
    /\ ctor.conn = ""
    /\ pc_r \in {"connected", "raised"}
    /\ IF pc_r = "connected"
       THEN /\ r_port' = nlinks
            /\ w_port' = nlinks
            /\ r_open' = TRUE
            /\ acq' = AcqIdle
            /\ pc_r' = "loop"
            /\ ctor' = [ctor EXCEPT !.conn = "ok"]
       ELSE /\ ctor' = [ctor EXCEPT !.conn = IF exc_r = "SerialException"
                                              THEN "SystemError" ELSE exc_r]
            /\ UNCHANGED <<r_port, w_port, r_open, acq, pc_r>>
    /\ UNCHANGED <<text_vars, queue_vars, card_vars, nlinks, running_r, exc_r, sleep_time,
                   slept, pushed, errors, running_w, pc_w, exc_w, written, lost, qsize_ok, wrapped, canvas,
                   app_vars, faults, sock_up, sock_down, pc_s>>

----------------------------------------------------------------------------
(* DAQConnection.read, run by the process pREADER on its own copy of the    *)
(* connection object                                                        *)

\* while self.running:
R_Loop ==
    /\ pc_r = "loop"
    /\ pc_r' = IF running_r = 1 THEN "if" ELSE "done"
    /\ slept' = <<0, 0>>
    /\ UNCHANGED <<text_vars, net_vars, queue_vars, card_vars, nlinks, r_port, r_open, running_r, acq,
                   exc_r, sleep_time, pushed, errors, writer_vars,
                   qsize_ok, wrapped, canvas, app_vars, faults>>

\* An I/O call of the reader raises IOError / OSError / SerialException.
R_Fault ==
    /\ pc_r \in {"if", "while", "readline"}
    /\ faults < MaxFaults
    /\ faults' = faults + 1
    /\ pc_r' = "except"
    /\ UNCHANGED <<text_vars, net_vars, queue_vars, card_vars, nlinks, r_port, r_open, running_r, acq,
                   exc_r, sleep_time, slept, pushed, errors, writer_vars,
                   qsize_ok, wrapped, canvas, app_vars>>

\* self.serial_port.readline() raises after it has read n bytes of the line,
\* the terminator not among them: the bytes it read are gone with the call.
R_FaultInLine(n) ==
    /\ pc_r = "readline"
    /\ faults < MaxFaults
    /\ n \in 1..(ReadlineLen(rx) - 1)
    /\ rx' = SubSeq(rx, n + 1, Len(rx))
    /\ faults' = faults + 1
    /\ pc_r' = "except"
    /\ UNCHANGED <<text_vars, net_vars, queue_vars, emitted, half, nlinks, r_port, r_open,
                   running_r, acq, exc_r, sleep_time, slept, pushed, errors, writer_vars,
                   qsize_ok, wrapped, canvas, app_vars>>

\* if self.serial_port.inWaiting(): ... else: sleep_time = min(1.5 * sleep_time, max)
R_If(maxexp) ==
    /\ pc_r = "if"
    /\ IF InWaiting > 0
       THEN /\ pc_r' = "while"
            /\ UNCHANGED sleep_time
       ELSE /\ Grown(sleep_time)[2] <= maxexp
            /\ sleep_time' = Grown(sleep_time)
            /\ pc_r' = "sleep"
    /\ UNCHANGED <<text_vars, net_vars, queue_vars, card_vars, nlinks, r_port, r_open, running_r, acq,
                   exc_r, slept, pushed, errors, writer_vars, qsize_ok, wrapped, canvas,
                   app_vars, faults>>

\* while self.serial_port.inWaiting(): ...; sleep_time = max(sleep_time / 2, min)
R_While(maxexp) ==
    /\ pc_r = "while"
    /\ IF InWaiting > 0
       THEN /\ pc_r' = "readline"
            /\ UNCHANGED sleep_time
       ELSE /\ Halved(sleep_time)[2] <= maxexp
            /\ sleep_time' = Halved(sleep_time)
            /\ pc_r' = "sleep"
    /\ UNCHANGED <<text_vars, net_vars, queue_vars, card_vars, nlinks, r_port, r_open, running_r, acq,
                   exc_r, slept, pushed, errors, writer_vars, qsize_ok, wrapped, canvas,
                   app_vars, faults>>

R_ReadlineReplay ==
    /\ pc_r = "readline"
    /\ LET n == ReadlineLen(rx)
           raw == SubSeq(rx, 1, n)
           item == ReaderItem(raw)
       IN  /\ rx' = IF faults > 0 /\ Len(pushed) = 1 THEN rx ELSE SubSeq(rx, n + 1, Len(rx))
           /\ IF item.kind = "str"
              THEN /\ out_queue' = QueuePut(out_queue, item.val)
                   /\ pushed' = Append(pushed, item.val)
                   /\ pc_r' = "while"
                   /\ UNCHANGED exc_r
              ELSE /\ pc_r' = "raised"
                   /\ exc_r' = item.kind
                   /\ UNCHANGED <<out_queue, pushed>>
    /\ UNCHANGED <<text_vars, net_vars, in_queue, in_flushed, out_flushed, emitted, half, nlinks,
                   r_port, r_open, running_r, acq, sleep_time, slept, errors, writer_vars,
                   qsize_ok, wrapped, canvas, app_vars, faults>>

\* self.out_queue.put((self.serial_port.readline().strip()).decode())
R_Readline ==
    /\ pc_r = "readline"
    /\ LET n == ReadlineLen(rx)
           raw == SubSeq(rx, 1, n)
           item == ReaderItem(raw)
       IN  /\ rx' = SubSeq(rx, n + 1, Len(rx))
           /\ IF item.kind = "str"
              THEN /\ out_queue' = QueuePut(out_queue, item.val)
                   /\ pushed' = Append(pushed, item.val)
                   /\ pc_r' = "while"
                   /\ UNCHANGED exc_r
              ELSE /\ pc_r' = "raised"
                   /\ exc_r' = item.kind
                   /\ UNCHANGED <<out_queue, pushed>>
    /\ UNCHANGED <<text_vars, net_vars, in_queue, in_flushed, out_flushed, emitted, half, nlinks,
                   r_port, r_open, running_r, acq, sleep_time, slept, errors, writer_vars,
                   qsize_ok, wrapped, canvas, app_vars, faults>>

\* sleep(sleep_time)
R_Sleep ==
    /\ pc_r = "sleep"
    /\ slept' = sleep_time
    /\ pc_r' = "loop"
    /\ UNCHANGED <<text_vars, net_vars, queue_vars, card_vars, nlinks, r_port, r_open, running_r, acq,
                   exc_r, sleep_time, pushed, errors, writer_vars, qsize_ok, wrapped, canvas,
                   app_vars, faults>>

R_ExceptNoClose ==
    /\ pc_r = "except"
    /\ errors' = errors + 1
    /\ pc_r' = "acquire"
    /\ UNCHANGED <<text_vars, net_vars, queue_vars, card_vars, nlinks, r_port, r_open, running_r, acq,
                   exc_r, sleep_time, slept, pushed, writer_vars, qsize_ok, wrapped, canvas,
                   app_vars, faults>>

\* except (IOError, OSError): self.logger.error("IOError"); self.serial_port.close()
R_Except ==
    /\ pc_r = "except"
    /\ errors' = errors + 1
    /\ r_open' = FALSE
    /\ pc_r' = "acquire"
    /\ UNCHANGED <<text_vars, net_vars, queue_vars, card_vars, nlinks, r_port, running_r, acq, exc_r,
                   sleep_time, slept, pushed, writer_vars, qsize_ok, wrapped, canvas,
                   app_vars, faults>>

----------------------------------------------------------------------------
(* DAQConnection.write, run by the process pWRITER on its own copy of the   *)
(* connection object                                                        *)

\* (str(command) + "\r").encode()
WriteBytes(cmd) == Append(cmd, CR)

\* while self.running:
W_Loop ==
    /\ pc_w = "loop"
    /\ pc_w' = IF running_w = 1 THEN "qsize" ELSE "done"
    /\ UNCHANGED <<text_vars, net_vars, queue_vars, card_vars, nlinks, reader_vars, w_port,
                   running_w, exc_w, written, lost, qsize_ok, wrapped, canvas, app_vars, faults>>

\* while self.in_queue.qsize(): where qsize() raises NotImplementedError the
\* handler's "while True" loop is entered; an empty queue ends the cycle.
W_Qsize ==
    /\ pc_w = "qsize"
    /\ pc_w' = IF ~qsize_ok THEN "mac"
               ELSE IF Len(in_queue) > 0 THEN "get" ELSE "sleep"
    /\ UNCHANGED <<text_vars, net_vars, queue_vars, card_vars, nlinks, reader_vars, w_port,
                   running_w, exc_w, written, lost, qsize_ok, wrapped, canvas, app_vars, faults>>

W_GetWriteWhileLinked(outcome) ==
    /\ pc_w \in {"get", "mac"}
    /\ r_open
    /\ IF in_flushed = 0
       THEN /\ outcome = "ok"
            /\ pc_w' = IF pc_w = "get" THEN "qsize" ELSE "mac"
            /\ UNCHANGED <<in_queue, in_flushed, written, lost, exc_w, faults>>
       ELSE /\ in_queue' = Tail(in_queue)
            /\ in_flushed' = in_flushed - 1
            /\ outcome # "ok" => faults < MaxFaults
            /\ faults' = IF outcome = "ok" THEN faults ELSE faults + 1
            /\ written' = IF outcome = "ok"
                          THEN Append(written, [link |-> w_port, current |-> r_port,
                                                bytes |-> WriteBytes(QueueFirst(in_queue))])
                          ELSE written
            /\ lost' = IF outcome = "ok" THEN lost ELSE Append(lost, QueueFirst(in_queue))
            /\ exc_w' = IF outcome = "error" THEN "SerialException" ELSE exc_w
            /\ pc_w' = IF outcome = "error" THEN "raised"
                       ELSE IF pc_w = "get" THEN "qsize" ELSE "mac"
    /\ UNCHANGED <<text_vars, net_vars, out_queue, out_flushed, card_vars, nlinks, reader_vars,
                   w_port, running_w, qsize_ok, wrapped, canvas, app_vars>>

\* self.serial_port.write((str(self.in_queue.get(0)) + "\r").encode()) with
\* "except (queue.Empty, serial.SerialTimeoutException): pass", the same
\* statement in both loops. The write succeeds ("ok"), times out ("timeout")
\* or fails with a SerialException ("error"), which no handler of write()
\* catches.
W_GetWrite(outcome) ==
    /\ pc_w \in {"get", "mac"}
    /\ IF in_flushed = 0
       THEN \* queue.Empty
            /\ outcome = "ok"
            /\ pc_w' = IF pc_w = "get" THEN "qsize" ELSE "mac"
            /\ UNCHANGED <<in_queue, in_flushed, written, lost, exc_w, faults>>
       ELSE /\ in_queue' = Tail(in_queue)
            /\ in_flushed' = in_flushed - 1
            /\ outcome # "ok" => faults < MaxFaults
            /\ faults' = IF outcome = "ok" THEN faults ELSE faults + 1
            /\ written' = IF outcome = "ok"
                          THEN Append(written, [link |-> w_port, current |-> r_port,
                                                bytes |-> WriteBytes(QueueFirst(in_queue))])
                          ELSE written
            /\ lost' = IF outcome = "ok" THEN lost ELSE Append(lost, QueueFirst(in_queue))
            /\ exc_w' = IF outcome = "error" THEN "SerialException" ELSE exc_w
            /\ pc_w' = IF outcome = "error" THEN "raised"
                       ELSE IF pc_w = "get" THEN "qsize" ELSE "mac"
    /\ UNCHANGED <<text_vars, net_vars, out_queue, out_flushed, card_vars, nlinks, reader_vars,
                   w_port, running_w, qsize_ok, wrapped, canvas, app_vars>>

\* Code running in the writer's process assigns self.running.
W_SetRunning(v) ==
    /\ running_w # v
    /\ running_w' = v
    /\ UNCHANGED <<text_vars, net_vars, queue_vars, card_vars, nlinks, reader_vars, w_port,
                   pc_w, exc_w, written, lost, qsize_ok, wrapped, canvas, app_vars, faults>>

\* sleep(0.1)
W_Sleep ==
    /\ pc_w = "sleep"
    /\ pc_w' = "loop"
    /\ UNCHANGED <<text_vars, net_vars, queue_vars, card_vars, nlinks, reader_vars, w_port,
                   running_w, exc_w, written, lost, qsize_ok, wrapped, canvas, app_vars, faults>>

----------------------------------------------------------------------------
(* DAQProvider: the application's side *)

\* The k-th command the application puts: "S<k>", or ";<k>", which has a
\* character outside the grammar of the lines read.
Command(k, shape) == IF shape = "plain" THEN <<83, 48 + k>> ELSE <<59, 48 + k>>

PutBounded(shape) ==
    /\ nput < MaxPut
    /\ Len(in_queue) < 1
    /\ nput' = nput + 1
    /\ in_queue' = QueuePut(in_queue, Command(nput + 1, shape))
    /\ UNCHANGED <<text_vars, net_vars, in_flushed, out_queue, out_flushed, card_vars, nlinks,
                   reader_vars, writer_vars, qsize_ok, wrapped, canvas, delivered, got, warnings, faults>>

\* put(command): self.in_queue.put(command)
Put(shape) ==
    /\ nput < MaxPut
    /\ nput' = nput + 1
    /\ in_queue' = QueuePut(in_queue, Command(nput + 1, shape))
    /\ UNCHANGED <<text_vars, net_vars, in_flushed, out_queue, out_flushed, card_vars, nlinks,
                   reader_vars, writer_vars, qsize_ok, wrapped, canvas, delivered, got, warnings, faults>>

GetNoneWhenEmpty(block) ==
    /\ IF out_flushed > 0
       THEN /\ out_queue' = Tail(out_queue)
            /\ out_flushed' = out_flushed - 1
            /\ got' = ValidateLine(QueueFirst(out_queue))
            /\ delivered' = Append(delivered, ValidateLine(QueueFirst(out_queue)))
            /\ warnings' = warnings + ValidateWarnings(QueueFirst(out_queue))
       ELSE /\ ~block
            /\ got' = None
            /\ UNCHANGED <<out_queue, out_flushed, delivered, warnings>>
    /\ UNCHANGED <<text_vars, net_vars, in_queue, in_flushed, card_vars, nlinks, reader_vars,
                   writer_vars, qsize_ok, wrapped, canvas, nput, faults>>

\* get(*args): self.out_queue.get(*args), queue.Empty becoming DAQIOError,
\* then _validate_line. A blocking get() waits while nothing is gettable.
Get(block) ==
    /\ IF out_flushed > 0
       THEN /\ out_queue' = Tail(out_queue)
            /\ out_flushed' = out_flushed - 1
            /\ got' = ValidateLine(QueueFirst(out_queue))
            /\ delivered' = Append(delivered, ValidateLine(QueueFirst(out_queue)))
            /\ warnings' = warnings + ValidateWarnings(QueueFirst(out_queue))
       ELSE /\ ~block
            /\ got' = RaisedWith("DAQIOError", "Queue is empty")
            /\ UNCHANGED <<out_queue, out_flushed, delivered, warnings>>
    /\ UNCHANGED <<text_vars, net_vars, in_queue, in_flushed, card_vars, nlinks, reader_vars,
                   writer_vars, qsize_ok, wrapped, canvas, nput, faults>>

DataAvailableIfEmpty ==
    IF qsize_ok
    THEN [type |-> "int", n |-> Len(out_queue)]
    ELSE [type |-> "bool", n |-> IF out_flushed = 0 THEN 1 ELSE 0]

\* data_available(): out_queue.qsize(), which counts an item from its put();
\* where qsize() raises NotImplementedError, "not out_queue.empty()", and
\* empty() looks into the pipe, which holds what the feeder has flushed.
DataAvailable ==
    IF qsize_ok
    THEN [type |-> "int", n |-> Len(out_queue)]
    ELSE [type |-> "bool", n |-> IF out_flushed = 0 THEN 0 ELSE 1]

\* bool(v) of a value data_available() returned
Truthy(v) == v.n # 0

----------------------------------------------------------------------------
(* DAQClient: the application's side in the remote topology *)

\* What DAQClient.get raises when recv_string() raises anything
SocketError == RaisedWith("DAQIOError", "Socket error")

\* DAQClient.__init__: zmq.Context() raises NameError where "import zmq"
\* failed, which becomes DAQMissingDependencyError.
NewClient ==
    /\ ctor.client = ""
    /\ ctor' = [ctor EXCEPT !.client = IF ctor.zmq THEN "ok"
                                       ELSE "DAQMissingDependencyError"]
    /\ UNCHANGED <<text_vars, queue_vars, card_vars, nlinks, reader_vars, writer_vars,
                   qsize_ok, wrapped, canvas, app_vars, faults, sock_up, sock_down, pc_s>>

\* The peer of the client's socket sends the text of the k-th record as one
\* message.
PeerSend(shape) ==
    /\ ctor.client = "ok"
    /\ emitted < MaxEmit
    /\ emitted' = emitted + 1
    /\ sock_down' = Append(sock_down, ReaderItem(Record(emitted + 1, shape)).val)
    /\ UNCHANGED <<text_vars, queue_vars, rx, half, nlinks, reader_vars, writer_vars,
                   qsize_ok, wrapped, canvas, app_vars, faults, sock_up, pc_s, ctor>>

C_GetKeepRejected(outcome) ==
    /\ ctor.client = "ok"
    /\ IF outcome = "ok"
       THEN /\ sock_down # <<>>
            /\ sock_down' = IF PatternMatch(Head(sock_down)) THEN Tail(sock_down)
                            ELSE Append(Tail(sock_down), Head(sock_down))
            /\ got' = ValidateLine(Head(sock_down))
            /\ delivered' = Append(delivered, ValidateLine(Head(sock_down)))
            /\ warnings' = warnings + ValidateWarnings(Head(sock_down))
       ELSE /\ got' = SocketError
            /\ UNCHANGED <<sock_down, delivered, warnings>>
    /\ UNCHANGED <<text_vars, queue_vars, card_vars, nlinks, reader_vars, writer_vars,
                   qsize_ok, wrapped, canvas, nput, faults, sock_up, pc_s, ctor>>

\* DAQClient.get: line = self.socket.recv_string(), which waits for a message;
\* "except Exception: raise DAQIOError"; return self._validate_line(line)
C_Get(outcome) ==
    /\ ctor.client = "ok"
    /\ IF outcome = "ok"
       THEN /\ sock_down # <<>>
            /\ sock_down' = Tail(sock_down)
            /\ got' = ValidateLine(Head(sock_down))
            /\ delivered' = Append(delivered, ValidateLine(Head(sock_down)))
            /\ warnings' = warnings + ValidateWarnings(Head(sock_down))
       ELSE /\ got' = SocketError
            /\ UNCHANGED <<sock_down, delivered, warnings>>
    /\ UNCHANGED <<text_vars, queue_vars, card_vars, nlinks, reader_vars, writer_vars,
                   qsize_ok, wrapped, canvas, nput, faults, sock_up, pc_s, ctor>>

\* DAQClient.put: self.socket.send_string(command)
C_Put(shape) ==
    /\ ctor.client = "ok"
    /\ nput < MaxPut
    /\ nput' = nput + 1
    /\ sock_up' = Append(sock_up, Command(nput + 1, shape))
    /\ UNCHANGED <<text_vars, queue_vars, card_vars, nlinks, reader_vars, writer_vars,
                   qsize_ok, wrapped, canvas, delivered, got, warnings, faults, sock_down, pc_s, ctor>>

\* DAQClient.data_available: self.socket.poll(200), the events pending on
\* the socket after at most 200ms: zmq.POLLIN (1) with a message to receive,
\* else 0. It receives nothing.
C_DataAvailable == IF sock_down # <<>> THEN 1 ELSE 0

----------------------------------------------------------------------------
(* DAQServer: one thread that runs serve(); read() of the server is read()  *)
(* of DAQConnection with socket.send in the place of out_queue.put, so its  *)
(* steps other than the forwarding are the reader's                         *)

\* DAQServer.__init__: super(DAQServer, self).__init__(self, logger) hands
\* BaseDAQConnection.__init__(self, logger=None) two arguments after self:
\* TypeError, before the serial port or zmq is touched.
NewServer ==
    /\ ctor.server = ""
    /\ ctor' = [ctor EXCEPT !.server = "TypeError"]
    /\ UNCHANGED <<text_vars, queue_vars, card_vars, nlinks, reader_vars, writer_vars,
                   qsize_ok, wrapped, canvas, app_vars, faults, sock_up, sock_down, pc_s>>

\* Code running in the reader's process, or another thread of the server's
\* process, assigns self.running.
SetRunning(v) ==
    /\ running_r # v
    /\ running_r' = v
    /\ UNCHANGED <<text_vars, queue_vars, card_vars, nlinks, r_port, r_open, acq, pc_r,
                   exc_r, sleep_time, slept, pushed, errors, writer_vars, qsize_ok, wrapped, canvas,
                   app_vars, faults, net_vars>>

\* self.socket.send((self.serial_port.readline().strip()).decode()): decode()
\* returns a str, and zmq's Socket.send takes bytes only: it raises TypeError
\* for a str (send_string is the call for one). Neither TypeError nor the
\* UnicodeDecodeError of decode() is caught by "except (IOError, OSError)".
S_Readline ==
    /\ pc_s = "read"
    /\ pc_r = "readline"
    /\ LET n == ReadlineLen(rx)
           item == ReaderItem(SubSeq(rx, 1, n))
       IN  /\ rx' = SubSeq(rx, n + 1, Len(rx))
           /\ exc_r' = IF item.kind = "str" THEN "TypeError" ELSE item.kind
    /\ pc_r' = "raised"
    /\ pc_s' = "raised"
    /\ UNCHANGED <<text_vars, queue_vars, emitted, half, nlinks, r_port, r_open,
                   running_r, acq, sleep_time, slept, pushed, errors, writer_vars,
                   qsize_ok, wrapped, canvas, app_vars, faults, sock_up, sock_down, ctor>>

\* serve(): self.read() has returned, self.write() is called
S_ReadReturns ==
    /\ pc_s = "read"
    /\ pc_r = "done"
    /\ pc_s' = "write"
    /\ UNCHANGED <<text_vars, queue_vars, card_vars, nlinks, reader_vars, writer_vars,
                   qsize_ok, wrapped, canvas, app_vars, faults, sock_up, sock_down, ctor>>

\* write(): "while self.running:"; with the flag clear write() returns and
\* serve() calls read(), which starts with sleep_time = min_sleep_time.
S_WriteLoop ==
    /\ pc_s = "write"
    /\ IF running_r = 1
       THEN /\ pc_s' = "recv"
            /\ UNCHANGED <<pc_r, sleep_time>>
       ELSE /\ pc_s' = "read"
            /\ pc_r' = "loop"
            /\ sleep_time' = <<min_sleep_time, 0>>
    /\ UNCHANGED <<text_vars, queue_vars, card_vars, nlinks, r_port, r_open, running_r,
                   acq, exc_r, slept, pushed, errors, writer_vars, qsize_ok, wrapped, canvas, app_vars,
                   faults, sock_up, sock_down, ctor>>

S_RecvWriteNoCR(outcome) ==
    /\ pc_s = "recv"
    /\ sock_up # <<>>
    /\ sock_up' = Tail(sock_up)
    /\ outcome # "ok" => faults < MaxFaults
    /\ faults' = IF outcome = "ok" THEN faults ELSE faults + 1
    /\ written' = IF outcome = "ok"
                  THEN Append(written, [link |-> r_port, current |-> r_port,
                                        bytes |-> Head(sock_up)])
                  ELSE written
    /\ lost' = IF outcome = "ok" THEN lost ELSE Append(lost, Head(sock_up))
    /\ exc_r' = IF outcome = "ok" THEN exc_r ELSE "SerialException"
    /\ pc_s' = IF outcome = "ok" THEN "sleep" ELSE "raised"
    /\ UNCHANGED <<text_vars, queue_vars, card_vars, nlinks, r_port, r_open, running_r,
                   acq, pc_r, sleep_time, slept, pushed, errors, w_port, running_w,
                   pc_w, exc_w, qsize_ok, wrapped, canvas, app_vars, sock_down, ctor>>

\* msg = self.socket.recv_string(), which waits for a message;
\* self.serial_port.write((str(msg) + "\r").encode()), which succeeds ("ok")
\* or raises a SerialException ("error") that nothing in write() or serve()
\* catches.
S_RecvWrite(outcome) ==
    /\ pc_s = "recv"
    /\ sock_up # <<>>
    /\ sock_up' = Tail(sock_up)
    /\ outcome # "ok" => faults < MaxFaults
    /\ faults' = IF outcome = "ok" THEN faults ELSE faults + 1
    /\ written' = IF outcome = "ok"
                  THEN Append(written, [link |-> r_port, current |-> r_port,
                                        bytes |-> WriteBytes(Head(sock_up))])
                  ELSE written
    /\ lost' = IF outcome = "ok" THEN lost ELSE Append(lost, Head(sock_up))
    /\ exc_r' = IF outcome = "ok" THEN exc_r ELSE "SerialException"
    /\ pc_s' = IF outcome = "ok" THEN "sleep" ELSE "raised"
    /\ UNCHANGED <<text_vars, queue_vars, card_vars, nlinks, r_port, r_open, running_r,
                   acq, pc_r, sleep_time, slept, pushed, errors, w_port, running_w,
                   pc_w, exc_w, qsize_ok, wrapped, canvas, app_vars, sock_down, ctor>>

\* sleep(0.1)
S_Sleep ==
    /\ pc_s = "sleep"
    /\ pc_s' = "write"
    /\ UNCHANGED <<text_vars, queue_vars, card_vars, nlinks, reader_vars, writer_vars,
                   qsize_ok, wrapped, canvas, app_vars, faults, sock_up, sock_down, ctor>>

----------------------------------------------------------------------------
(* ScalarsCanvas (muonic/gui/plot_canvases.py) *)

\* The default of the max_length argument
DefaultMaxLength == 40

\* The series handed to ax.plot with the lists as they are at that call: one
\* per channel named (ch in 1..4 for the source's 0..3), in the order of the
\* channels, then the trigger's if asked for.
Plots(time_data, channel_data, trigger_data, channels, show_trigger) ==
    LET upto[ch \in 0..4] ==
            IF ch = 0 THEN <<>>
            ELSE upto[ch - 1] \o
                 (IF channels[ch] THEN <<[x |-> time_data, y |-> channel_data[ch]]>>
                  ELSE <<>>)
    IN  upto[4] \o (IF show_trigger THEN <<[x |-> time_data, y |-> trigger_data]>>
                    ELSE <<>>)

AllChannels == <<TRUE, TRUE, TRUE, TRUE>>

\* ScalarsCanvas.__init__, which ends with self.reset(): the fields, the
\* series drawn, and the number of update_plot calls so far.
NewCanvas(max_length) ==
    [max_length |-> max_length,
     show_trigger |-> TRUE,
     channel_data |-> <<<<>>, <<>>, <<>>, <<>>>>,
     trigger_data |-> <<>>,
     time_data |-> <<>>,
     time_window |-> 0,
     drawn |-> Plots(<<>>, <<<<>>, <<>>, <<>>, <<>>>>, <<>>, AllChannels, TRUE),
     updates |-> 0]

\* reset(): the cached lists emptied, time_window zeroed, the empty series
\* plotted.
reset ==
    /\ canvas' = [canvas EXCEPT
                     !.channel_data = <<<<>>, <<>>, <<>>, <<>>>>,
                     !.trigger_data = <<>>,
                     !.time_data = <<>>,
                     !.time_window = 0,
                     !.drawn = Plots(<<>>, <<<<>>, <<>>, <<>>, <<>>>>, <<>>, AllChannels,
                                     canvas.show_trigger)]
    /\ UNCHANGED <<text_vars, net_vars, queue_vars, card_vars, nlinks, reader_vars,
                   writer_vars, qsize_ok, wrapped, app_vars, faults>>

\* list.remove(list[0]): the first item equal to list[0] goes, list[0] itself
RemoveFirst(list) == Tail(list)

\* update_plot(data, show_trigger, enabled_channels), data being the rates
\* of the four channels, the trigger rate and the length of the time window:
\* the new values are appended and the series plotted, and after the plotting
\* the oldest value of each list is removed if channel_data[0] now has more
\* than max_length values.
update_plot(data, show_trigger, enabled_channels) ==
    /\ canvas.updates < MaxUpdates
    /\ LET time_window == canvas.time_window + data[6]
           time_data == Append(canvas.time_data, time_window)
           channel_data == [ch \in 1..4 |-> Append(canvas.channel_data[ch], data[ch])]
           trigger_data == Append(canvas.trigger_data, data[5])
           over == Len(channel_data[1]) > canvas.max_length
       IN  canvas' = [canvas EXCEPT
                        !.show_trigger = show_trigger,
                        !.time_window = time_window,
                        !.drawn = Plots(time_data, channel_data, trigger_data,
                                        enabled_channels, show_trigger),
                        !.channel_data = IF over
                                         THEN [ch \in 1..4 |-> RemoveFirst(channel_data[ch])]
                                         ELSE channel_data,
                        !.trigger_data = IF over THEN RemoveFirst(trigger_data)
                                         ELSE trigger_data,
                        !.time_data = IF over THEN RemoveFirst(time_data) ELSE time_data,
                        !.updates = @ + 1]
    /\ UNCHANGED <<text_vars, net_vars, queue_vars, card_vars, nlinks, reader_vars,
                   writer_vars, qsize_ok, wrapped, app_vars, faults>>

----------------------------------------------------------------------------
(* WrappedFile (muonic/util/helpers.py) *)

\* The filenames instances are constructed with, and the argument None
Filenames == {"a", "b"}
NoFilename == "<None>"

\* The class with no instance yet: open_files = set()
NoFiles == [open_files |-> {}, instances |-> <<>>, raised |-> ""]

\* WrappedFile(filename): ValueError for None, else an instance with its
\* _filename, and _file None.
NewWrappedFile(filename) ==
    /\ Len(wrapped.instances) < MaxInstances
    /\ IF filename = NoFilename
       THEN wrapped' = [wrapped EXCEPT !.raised = "ValueError"]
       ELSE wrapped' = [wrapped EXCEPT
                          !.instances = Append(@, [filename |-> filename, file |-> "None"]),
                          !.raised = ""]
    /\ UNCHANGED <<text_vars, net_vars, queue_vars, card_vars, nlinks, reader_vars,
                   writer_vars, qsize_ok, canvas, app_vars, faults>>

\* open(mode): self._file = open(self._filename, mode), which raises IOError
\* before anything is assigned when the file cannot be opened;
\* WrappedFile.open_files.add(self._filename).
open(i, opens) ==
    /\ i \in 1..Len(wrapped.instances)
    /\ IF opens
       THEN wrapped' = [wrapped EXCEPT
                          !.instances[i].file = "file",
                          !.open_files = @ \cup {wrapped.instances[i].filename},
                          !.raised = ""]
       ELSE wrapped' = [wrapped EXCEPT !.raised = "IOError"]
    /\ UNCHANGED <<text_vars, net_vars, queue_vars, card_vars, nlinks, reader_vars,
                   writer_vars, qsize_ok, canvas, app_vars, faults>>

\* The property closed: self._file is None
closed(i) == wrapped.instances[i].file = "None"

\* close(): with _file None, raise IOError("... not open" % self.file_name),
\* where the instance has no attribute file_name: __getattr__ is called for
\* it, finds _file None and evaluates self.file_name for its own IOError, and
\* so on until RecursionError. Else self._file.close(); self._file = None;
\* WrappedFile.open_files.remove(self._filename), which raises KeyError for a
\* filename that is not in the set.
close(i) ==
    /\ i \in 1..Len(wrapped.instances)
    /\ IF closed(i)
       THEN wrapped' = [wrapped EXCEPT !.raised = "RecursionError"]
       ELSE IF wrapped.instances[i].filename \in wrapped.open_files
            THEN wrapped' = [wrapped EXCEPT
                               !.instances[i].file = "None",
                               !.open_files = @ \ {wrapped.instances[i].filename},
                               !.raised = ""]
            ELSE wrapped' = [wrapped EXCEPT
                               !.instances[i].file = "None",
                               !.raised = "KeyError"]
    /\ UNCHANGED <<text_vars, net_vars, queue_vars, card_vars, nlinks, reader_vars,
                   writer_vars, qsize_ok, canvas, app_vars, faults>>

\* get_open_files()
get_open_files == wrapped.open_files

----------------------------------------------------------------------------
(* The pure text functions on their own *)

\* _validate_line applied to a text of characters below 128
TextValidate ==
    /\ t_op = "init"
    /\ \A i \in 1..Len(t_in) : t_in[i] < 128
    /\ t_op' = "validate"
    /\ t_out' = ValidateLine(t_in)
    /\ warnings' = warnings + ValidateWarnings(t_in)
    /\ UNCHANGED <<t_in, net_vars, queue_vars, card_vars, nlinks, reader_vars, writer_vars,
                   qsize_ok, wrapped, canvas, delivered, got, nput, faults>>

\* readline().strip().decode() applied to the bytes readline() returned
TextStrip ==
    /\ t_op = "init"
    /\ t_op' = "strip"
    /\ t_out' = ReaderItem(t_in)
    /\ UNCHANGED <<t_in, net_vars, queue_vars, card_vars, nlinks, reader_vars, writer_vars,
                   qsize_ok, wrapped, canvas, app_vars, faults>>

----------------------------------------------------------------------------
(* Specifications *)

WriterStartedAlways(sim) == "loop"

\* "if not sim:" the process pWRITER is started on self.daq.write; with sim
\* set there is no writer process.
WriterStarted(sim) == IF sim THEN "unstarted" ELSE "loop"

\* The state DAQProvider.__init__ leaves: both queues empty, link 1 open in
\* the parent and so in the forked workers, each at the head of its loop.
InitFields ==
    /\ in_queue = <<>> /\ in_flushed = 0
    /\ out_queue = <<>> /\ out_flushed = 0
    /\ rx = <<>> /\ emitted = 0 /\ half = <<>>
    /\ nlinks = 1 /\ r_port = 1 /\ r_open = TRUE /\ w_port = 1
    /\ running_r = 1 /\ running_w = 1
    /\ pc_r = "loop" /\ pc_w = WriterStarted(ctor.sim)
    /\ acq = AcqIdle
    /\ exc_r = "" /\ exc_w = ""
    /\ sleep_time = <<min_sleep_time, 0>>
    /\ slept = <<0, 0>>
    /\ written = <<>> /\ lost = <<>> /\ pushed = <<>> 
    /\ delivered = <<>> /\ got = None
    /\ nput = 0 /\ faults = 0 /\ errors = 0 /\ warnings = 0
    /\ sock_up = <<>> /\ sock_down = <<>> /\ pc_s = "read"
    /\ wrapped = NoFiles

\* The same with the client connected, for the specifications that do not
\* construct it.
InitLocal ==
    /\ ctor = [zmq |-> TRUE, client |-> "ok", server |-> "", conn |-> "ok", sim |-> FALSE]
    /\ InitFields
    /\ canvas = NewCanvas(DefaultMaxLength)

Init ==
    /\ t_in = <<>> /\ t_op = "init" /\ t_out = None
    /\ qsize_ok \in BOOLEAN
    /\ InitLocal

\* The loop of read() on a link without faults. A sleep_time n / 2^k with k
\* above maxexp is not explored.
ReadSteps(maxexp) ==
    R_Loop \/ R_If(maxexp) \/ R_While(maxexp) \/ R_Readline \/ R_Sleep

\* The loop of read() and its handler
ReadLoop(maxexp) == ReadSteps(maxexp) \/ R_Fault \/ R_Except

\* get_serial_port
Reacquire ==
    \/ \E hook \in {"path", "packaged", "missing"} : R_Acquire(hook)
    \/ \E opens \in BOOLEAN, flush \in BOOLEAN : R_Open(opens, flush)
    \/ R_Pause \/ R_Return

\* The reader process
Reader(maxexp) == ReadLoop(maxexp) \/ Reacquire

Writer ==
    \/ W_Loop \/ W_Qsize \/ W_Sleep
    \/ \E outcome \in {"ok", "timeout", "error"} : W_GetWrite(outcome)

\* The card sending records of every shape, and well-formed ones in two parts
Card ==
    \/ \E shape \in Shapes : CardSend(shape)
    \/ CardSendPart
    \/ CardSendRest

\* The whole provider: the application, both workers and a card that sends
\* whole, well-formed records.
Next ==
    \/ Reader(MaxExpShort)
    \/ Writer
    \/ CardSend("plain")
    \/ FeedIn
    \/ FeedOut
    \/ Put("plain")
    \/ \E block \in BOOLEAN : Get(block)

Spec == Init /\ [][Next]_vars

\* The reader polling a card that sends whole, well-formed records: the
\* backoff in full.
InitBackoff ==
    /\ t_in = <<>> /\ t_op = "init" /\ t_out = None
    /\ qsize_ok = TRUE
    /\ InitLocal

NextBackoff == Reader(MaxExp) \/ CardSend("plain")

SpecBackoff == InitBackoff /\ [][NextBackoff]_vars

\* The reader as a process of its own, which the operating system keeps
\* running: a step it can take is taken.
NextAcquire == Reader(MaxExpShort) \/ CardSend("plain")

SpecAcquire ==
    InitBackoff /\ [][NextAcquire]_vars /\ WF_vars(Reader(MaxExpShort))

\* The outbound direction: the card, the reader, out_queue and get().
NextReader ==
    \/ Reader(MaxExpShort)
    \/ Card
    \/ FeedOut
    \/ \E block \in BOOLEAN : Get(block)

SpecReader == InitBackoff /\ [][NextReader]_vars

\* The outbound direction with a card that sends whole, well-formed records
\* and a link whose faults may also come in the middle of a line.
NextReconnect ==
    \/ Reader(MaxExpShort)
    \/ \E n \in 1..Len(rx) : R_FaultInLine(n)
    \/ CardSend("plain")
    \/ FeedOut
    \/ \E block \in BOOLEAN : Get(block)

SpecReconnect == InitBackoff /\ [][NextReconnect]_vars

\* What the application gets: lines the reader pushed, read from a link
\* without faults, through DAQProvider.get, and messages through DAQClient.get.
NextFacade ==
    \/ ReadSteps(MaxExpShort)
    \/ \E shape \in Shapes : CardSend(shape)
    \/ FeedOut
    \/ \E block \in BOOLEAN : Get(block)
    \/ \E shape \in {"plain", "bad"} : PeerSend(shape)
    \/ \E outcome \in {"ok", "error"} : C_Get(outcome)

SpecFacade == Init /\ [][NextFacade]_vars

\* The same with the commands the client puts.
NextConsume == NextFacade \/ C_Put("plain")

SpecConsume == Init /\ [][NextConsume]_vars

\* The thread of the server: read() with its handler and the reacquire, then
\* write(), in turns. No line of the server's read() is drained without an
\* exception, so its sleep_time only grows, and MaxExp covers the growth from
\* 10ms to 200ms.
Server ==
    \/ R_Loop \/ R_If(MaxExp) \/ R_While(MaxExp) \/ R_Sleep \/ R_Except
    \/ Reacquire
    \/ S_Readline \/ S_ReadReturns \/ S_WriteLoop \/ S_Sleep
    \/ \E outcome \in {"ok", "error"} : S_RecvWrite(outcome)

\* The remote topology on the server's side: a DAQServer whose fields are as
\* its __init__ is written to leave them (running set, the link open, the
\* socket bound), a client that puts commands, a card that sends whole,
\* well-formed records, and a flag that another thread may clear and set. The server's thread takes a step it can
\* take.
NextServer ==
    \/ Server
    \/ R_Fault
    \/ \E v \in {0, 1} : SetRunning(v)
    \/ \E shape \in {"plain", "odd"} : C_Put(shape)
    \/ CardSend("plain")

SpecServer == InitBackoff /\ [][NextServer]_vars /\ WF_vars(Server)

\* The remote topology on the client's side, from the construction of the
\* client and of the server on.
InitRemote ==
    /\ t_in = <<>> /\ t_op = "init" /\ t_out = None
    /\ qsize_ok = TRUE
    /\ ctor \in [zmq : BOOLEAN, client : {""}, server : {""}, conn : {"ok"}, sim : {FALSE}]
    /\ InitFields
    /\ canvas = NewCanvas(DefaultMaxLength)

NextRemote ==
    \/ NewClient
    \/ NewServer
    \/ \E shape \in {"plain", "odd"} : C_Put(shape)
    \/ \E shape \in {"plain", "bad"} : PeerSend(shape)
    \/ \E outcome \in {"ok", "error"} : C_Get(outcome)

SpecRemote == InitRemote /\ [][NextRemote]_vars

\* Shutdown in the local topology: both workers, each of which takes a step
\* it can take, on a link without faults, and the flag of each cleared at
\* some moment.
NextStop ==
    \/ ReadSteps(MaxExpShort)
    \/ Writer
    \/ CardSend("plain")
    \/ FeedIn
    \/ Put("plain")
    \/ SetRunning(0)
    \/ W_SetRunning(0)

SpecStop ==
    Init /\ [][NextStop]_vars /\ WF_vars(ReadSteps(MaxExpShort)) /\ WF_vars(Writer)

\* A reconnect in the local topology, on a link the card sends nothing on:
\* the reader, which may stay in its reacquire as long as the device does not
\* open, the writer and the feeder of in_queue, each of which takes a step it
\* can take, and the application.
NextIsolate ==
    \/ R_Loop \/ R_If(MaxExpShort) \/ R_Sleep \/ R_Fault \/ R_Except
    \/ Reacquire
    \/ Writer
    \/ FeedIn
    \/ Put("plain")
    \/ Get(FALSE)

SpecIsolate ==
    Init /\ [][NextIsolate]_vars /\ WF_vars(Writer) /\ WF_vars(FeedIn)

\* The provider constructed with sim clear or set. With sim set self.daq is a
\* DAQSimulationConnection, whose read() is the loop of read() on a backend
\* that makes up the lines.
SimRead(maxexp) == ctor.sim /\ ReadSteps(maxexp)

InitSim ==
    /\ t_in = <<>> /\ t_op = "init" /\ t_out = None
    /\ qsize_ok \in BOOLEAN
    /\ ctor \in [zmq : {TRUE}, client : {"ok"}, server : {""}, conn : {"ok"},
                sim : BOOLEAN]
    /\ InitFields
    /\ canvas = NewCanvas(DefaultMaxLength)

NextSim ==
    \/ SimRead(MaxExpShort)
    \/ ~ctor.sim /\ ReadSteps(MaxExpShort)
    \/ Writer
    \/ CardSend("plain")
    \/ FeedIn
    \/ FeedOut
    \/ Put("plain")
    \/ \E block \in BOOLEAN : Get(block)

SpecSim == InitSim /\ [][NextSim]_vars

\* The construction of a connection, from the call of get_serial_port in
\* __init__ on: no link yet, no worker started, a card that may be sending.
InitConstruct ==
    /\ t_in = <<>> /\ t_op = "init" /\ t_out = None
    /\ qsize_ok = TRUE
    /\ ctor = [zmq |-> TRUE, client |-> "", server |-> "", conn |-> "", sim |-> FALSE]
    /\ in_queue = <<>> /\ in_flushed = 0
    /\ out_queue = <<>> /\ out_flushed = 0
    /\ rx = <<>> /\ emitted = 0 /\ half = <<>>
    /\ nlinks = 0 /\ r_port = 0 /\ r_open = FALSE /\ w_port = 0
    /\ running_r = 1 /\ running_w = 1
    /\ pc_r = "acquire" /\ pc_w = "unstarted"
    /\ acq = AcqIdle
    /\ exc_r = "" /\ exc_w = ""
    /\ sleep_time = <<min_sleep_time, 0>>
    /\ slept = <<0, 0>>
    /\ written = <<>> /\ lost = <<>> /\ pushed = <<>>
    /\ delivered = <<>> /\ got = None
    /\ nput = 0 /\ faults = 0 /\ errors = 0 /\ warnings = 0
    /\ sock_up = <<>> /\ sock_down = <<>> /\ pc_s = "read"
    /\ wrapped = NoFiles
    /\ canvas = NewCanvas(DefaultMaxLength)

NextConstruct ==
    \/ \E hook \in {"path", "packaged", "missing"} : R_Acquire(hook)
    \/ \E opens \in BOOLEAN, flush \in BOOLEAN : R_Open(opens, flush)
    \/ R_Pause
    \/ NewConnection
    \/ \E shape \in Shapes : CardSend(shape)

SpecConstruct == InitConstruct /\ [][NextConstruct]_vars

\* A ScalarsCanvas constructed with a max_length of 1 to MaxLength, updated
\* with either of two samples and reset, in any order.
Samples == {<<0, 0, 0, 0, 0, 1>>, <<3, 1, 4, 1, 5, 2>>}

InitCanvas ==
    /\ t_in = <<>> /\ t_op = "init" /\ t_out = None
    /\ qsize_ok = TRUE
    /\ ctor = [zmq |-> TRUE, client |-> "ok", server |-> "", conn |-> "ok", sim |-> FALSE]
    /\ InitFields
    /\ canvas \in {NewCanvas(max_length) : max_length \in 1..MaxLength}

NextCanvas ==
    \/ reset
    \/ \E data \in Samples, show_trigger \in BOOLEAN,
          enabled_channels \in {AllChannels, <<FALSE, TRUE, TRUE, TRUE>>} :
           update_plot(data, show_trigger, enabled_channels)

SpecCanvas == InitCanvas /\ [][NextCanvas]_vars

\* WrappedFile instances constructed, opened and closed in any order
NextFiles ==
    \/ \E filename \in Filenames \cup {NoFilename} : NewWrappedFile(filename)
    \/ \E i \in 1..MaxInstances, opens \in BOOLEAN : open(i, opens)
    \/ \E i \in 1..MaxInstances : close(i)

SpecFiles == InitBackoff /\ [][NextFiles]_vars

\* The inbound direction: put(), in_queue and the writer.
NextWriter ==
    \/ Writer
    \/ FeedIn
    \/ \E shape \in {"plain", "odd"} : Put(shape)

SpecWriter == Init /\ [][NextWriter]_vars

\* The same with the writer process and the feeder thread of in_queue kept
\* running: each takes a step it can take.
SpecCycle == Init /\ [][NextWriter]_vars /\ WF_vars(Writer) /\ WF_vars(FeedIn)

\* The pure text functions on every text of at most MaxLen characters.
InitText ==
    /\ t_in \in SeqsUpTo(TextAlphabet, MaxLen)
    /\ t_op = "init" /\ t_out = None
    /\ qsize_ok = TRUE
    /\ InitLocal

NextText == TextValidate \/ TextStrip

SpecText == InitText /\ [][NextText]_vars

----------------------------------------------------------------------------
(* Properties *)

\* The characters the grammar names: letters, digits, the space and
\* + - . , : ( ) = $ / # ? ! % _ @ * | ~ '
GrammarLetters == {c \in 0..127 : (c >= 65 /\ c <= 90) \/ (c >= 97 /\ c <= 122)}
GrammarDigits == {c \in 0..127 : c >= 48 /\ c <= 57}
GrammarPunctuation ==
    {43, 45, 46, 44, 58, 40, 41, 61, 36, 47, 35, 63, 33, 37, 95, 64, 42, 124, 126, 39}
Grammar == GrammarLetters \cup GrammarDigits \cup GrammarPunctuation \cup {32}

\* The length of s without its trailing run of CR and LF
RECURSIVE LenWithoutLineEnd(_)
LenWithoutLineEnd(s) ==
    IF s # <<>> /\ s[Len(s)] \in {CR, LF}
    THEN LenWithoutLineEnd(SubSeq(s, 1, Len(s) - 1))
    ELSE Len(s)

Whitespace == {32, 9, 10, 11, 12, 13}

\* C5 as stated: the item the reader pushes for a hardware line is the line
\* without its trailing CR/LF, every other character kept.
C5_OnlyLineEndRemoved ==
    (t_op = "strip" /\ t_out.kind = "str" /\ t_in # <<>> /\ t_in[Len(t_in)] = LF) =>
        t_out.val = SubSeq(t_in, 1, LenWithoutLineEnd(t_in))

\* C5 as amended: every item the reader pushes is the bytes it read without
\* the whitespace at both ends (space, TAB, LF, VT, FF, CR), every character
\* between the first and the last non-whitespace one kept; bytes that are no
\* text push nothing.
C5_WhitespaceRemovedAtBothEnds ==
    t_op = "strip" =>
        LET inner == {i \in 1..Len(t_in) : t_in[i] \notin Whitespace}
            first == CHOOSE i \in inner : \A j \in inner : i <= j
            last == CHOOSE i \in inner : \A j \in inner : j <= i
            kept == IF inner = {} THEN <<>> ELSE SubSeq(t_in, first, last)
        IN  IF \E i \in 1..Len(kept) : kept[i] > 127
            THEN t_out.kind = "UnicodeDecodeError"
            ELSE t_out = Str(kept)

\* C5 witness: a line with a leading space and a trailing TAB loses both.
C5_Witness ==
    t_op = "strip" /\ t_in = <<32, 97, 9>> /\ t_out = Str(<<97>>)

----------------------------------------------------------------------------
(* The inbound direction *)

\* The number k of the put() that issued the command written by w, 0 if none
PutOf(w) ==
    IF \E k \in 1..nput : \E shape \in {"plain", "odd"} :
           SubSeq(w.bytes, 1, 2) = Command(k, shape)
    THEN CHOOSE k \in 1..nput : \E shape \in {"plain", "odd"} :
             SubSeq(w.bytes, 1, 2) = Command(k, shape)
    ELSE 0

\* C2: the writes to the serial link occur in the order of the put() calls:
\* no write of a later command precedes the write of an earlier one.
C2_CommandFifo ==
    \A i \in 1..Len(written) :
        /\ PutOf(written[i]) # 0
        /\ \A j \in (i + 1)..Len(written) : PutOf(written[i]) < PutOf(written[j])

\* C2 witness: two commands were written, the first put first.
C2_Witness ==
    Len(written) >= 2 /\ PutOf(written[1]) = 1 /\ PutOf(written[2]) = 2

\* How many writes carried the k-th command followed by one CR
WritesOf(k) ==
    Cardinality({i \in 1..Len(written) :
        \E shape \in {"plain", "odd"} : written[i].bytes = Command(k, shape) \o <<CR>>})

\* Is the k-th command still on in_queue
Queued(k) ==
    \E i \in 1..Len(in_queue) : \E shape \in {"plain", "odd"} :
        in_queue[i] = Command(k, shape)

\* C3: every command put() accepted is written exactly once, as the command
\* followed by one CR: while the writer runs, a command that has left in_queue
\* has one write, a command still queued none, a write that timed out
\* included.
C3_ExactlyOneWrite ==
    exc_w = "" => \A k \in 1..nput : WritesOf(k) = IF Queued(k) THEN 0 ELSE 1

\* C9: a serial I/O failure of a write never leaves the writer's loop.
C9_WriteFailureContained ==
    exc_w = "" /\ pc_w # "raised"

----------------------------------------------------------------------------
(* The outbound direction *)

\* The number of the record an item carries (its digit), 0 for an item
\* without one
RecordOf(item) ==
    IF \E i \in 1..Len(item) : item[i] \in 49..57
    THEN (CHOOSE c \in 49..57 : \E i \in 1..Len(item) : item[i] = c) - 48
    ELSE 0

\* C4: successive get() calls return the lines in the order in which the
\* reader read them from the link, which is the order in which the card sent
\* them: the i-th line returned is the i-th line read (None in its place if it
\* fails the grammar), and the lines still queued are the ones read after it.
C4_LineFifo ==
    /\ Len(delivered) + Len(out_queue) = Len(pushed)
    /\ \A i \in 1..Len(delivered) : delivered[i] = ValidateLine(pushed[i])
    /\ \A i \in 1..Len(out_queue) : out_queue[i] = pushed[Len(delivered) + i]
    /\ \A i \in 1..Len(pushed) : \A j \in (i + 1)..Len(pushed) :
           (RecordOf(pushed[i]) # 0 /\ RecordOf(pushed[j]) # 0) =>
               RecordOf(pushed[i]) < RecordOf(pushed[j])

\* C4 witness: get() returned the first record and then the second.
C4_Witness ==
    /\ Len(delivered) = 2
    /\ delivered[1] = Str(<<97, 49>>)
    /\ delivered[2] = Str(<<97, 50>>)

\* v is a number of milliseconds in [10, 200]
InBounds(v) == 10 * Pow2(v[2]) <= v[1] /\ v[1] <= 200 * Pow2(v[2])

\* C6: the reader's poll interval stays within [10ms, 200ms] through every
\* sequence of data polls, idle polls and I/O faults with reconnects, and so
\* does every duration it sleeps.
C6_BackoffBounds ==
    /\ InBounds(sleep_time)
    /\ slept # <<0, 0>> => InBounds(slept)

\* C6 witness: the interval has reached 200ms and the link was reacquired
\* after a fault.
C6_Witness ==
    sleep_time = <<200, 0>> /\ nlinks = 2 /\ pc_r = "if"

\* w is half of v, w is one and a half times v
IsHalfOf(w, v) == 2 * w[1] * Pow2(v[2]) = v[1] * Pow2(w[2])
IsThreeHalvesOf(w, v) == 2 * w[1] * Pow2(v[2]) = 3 * v[1] * Pow2(w[2])

\* C7: the interval starts at 10ms; an iteration that finds pending bytes and
\* drains them sets it to max(previous / 2, 10ms); one that finds none sets it
\* to min(1.5 * previous, 200ms); the reader then sleeps the interval; no
\* other step changes it, a reconnect in particular.
C7_BackoffStep ==
    /\ sleep_time = <<10, 0>>
    /\ [][/\ (pc_r = "while" /\ pc_r' = "sleep") =>
                IF 20 * Pow2(sleep_time[2]) <= sleep_time[1]
                THEN IsHalfOf(sleep_time', sleep_time)
                ELSE sleep_time' = <<10, 0>>
          /\ (pc_r = "if" /\ pc_r' = "sleep") =>
                IF 3 * sleep_time[1] <= 400 * Pow2(sleep_time[2])
                THEN IsThreeHalvesOf(sleep_time', sleep_time)
                ELSE sleep_time' = <<200, 0>>
          /\ (pc_r = "sleep" /\ pc_r' # "sleep") => slept' = sleep_time
          /\ pc_r' # "sleep" => sleep_time' = sleep_time
          /\ pc_r = "sleep" => sleep_time' = sleep_time
         ]_vars

\* C7 witness: the link was reacquired while the interval was 33.75ms, and it
\* still is.
C7_Witness ==
    nlinks = 2 /\ pc_r = "loop" /\ sleep_time = <<135, 2>>

\* The positions of the reader inside get_serial_port
InAcquire == {"acquire", "open", "pause", "connected"}

\* C8 as stated: once an I/O error was raised in the reader's loop, no
\* exception leaves read(), whatever happens during the close and the
\* reacquire.
C8_NothingEscapes ==
    errors > 0 => (exc_r = "" /\ pc_r # "raised")

\* C8 as amended: an I/O error raised while the reader polls or reads the link
\* is logged once and the link closed; the reacquire then either opens a new
\* link, on which the loop continues with nothing raised, or, if the discovery
\* hook is found nowhere, raises OSError, the only exception that leaves
\* read() from the handling of an I/O error.
C8_ReacquireOrOSError ==
    [][/\ (faults' = faults + 1 /\ pc_r \in {"if", "while", "readline"}) =>
              (pc_r' = "except" /\ exc_r' = "")
       /\ (pc_r = "except" /\ pc_r' # "except") =>
              /\ errors' = errors + 1
              /\ ~r_open'
              /\ pc_r' = "acquire"
              /\ exc_r' = ""
       /\ (pc_r \in InAcquire /\ pc_r' \notin InAcquire) =>
              \/ /\ pc_r' = "loop"
                 /\ exc_r' = ""
                 /\ r_open'
                 /\ r_port' = r_port + 1
                 /\ errors' = errors
              \/ /\ pc_r' = "raised"
                 /\ exc_r' = "OSError"
       /\ (pc_r' = "raised" /\ pc_r \notin {"raised"} \cup InAcquire) =>
              (pc_r = "readline" /\ exc_r' = "UnicodeDecodeError")
      ]_vars

\* C8 witness: after an I/O error the reader is back in its loop on a new,
\* open link and has pushed a line read from it.
C8_Witness ==
    /\ errors = 1 /\ r_port = 2 /\ r_open /\ exc_r = ""
    /\ pc_r = "while" /\ pushed = <<<<97, 49>>>>

----------------------------------------------------------------------------
(* Acquiring the link *)

\* C11: get_serial_port returns only an open link: an attempt either opens the
\* device or is logged and followed by one pause of 5 seconds and the next
\* turn, which starts with the discovery; nothing but an opened device ends
\* the turns; and once an attempt has opened the device the call returns that
\* link, open.
C11_AcquireRetries ==
    /\ [][/\ (pc_r \in InAcquire /\ pc_r' = "loop") =>
                 (pc_r = "connected" /\ r_open' /\ r_port' = nlinks')
          /\ (pc_r = "open" /\ pc_r' # "open") =>
                 \/ /\ pc_r' = "connected"
                    /\ nlinks' = nlinks + 1
                    /\ acq' = acq
                 \/ /\ pc_r' = "pause"
                    /\ nlinks' = nlinks
                    /\ acq'.failed = acq.failed + 1
                    /\ acq'.logged > acq.logged
          /\ (pc_r = "pause" /\ pc_r' # "pause") =>
                 (pc_r' = "acquire" /\ acq'.paused = acq.paused + 5000)
          /\ (pc_r = "acquire" /\ pc_r' # "acquire") =>
                 pc_r' \in {"open", "raised"}
          ]_vars
    /\ [](pc_r \in {"acquire", "open", "connected"} => acq.paused = 5000 * acq.failed)
    /\ [](pc_r = "pause" => acq.paused = 5000 * (acq.failed - 1))
    /\ (pc_r = "connected") ~> (pc_r = "loop" /\ r_open /\ r_port = nlinks)

\* C11 witness: the device opened at the third attempt, after two logged
\* failures and two pauses.
C11_Witness ==
    /\ pc_r = "connected" /\ nlinks = 2
    /\ acq.failed = 2 /\ acq.logged = 4 /\ acq.paused = 10000

\* C12: a discovery that finds the hook neither on the search path nor at the
\* packaged place raises OSError out of get_serial_port at once: that turn
\* makes no open attempt, logs no failure and pauses not, and no turn
\* follows it.
C12_MissingHookIsFatal ==
    [][acq'.hook = "missing" =>
           /\ pc_r' = "raised"
           /\ exc_r' = "OSError"
           /\ nlinks' = nlinks
           /\ acq'.failed = acq.failed
           /\ acq'.logged = acq.logged
           /\ acq'.paused = acq.paused
           /\ ~r_open'
      ]_vars

\* C12 witness: the first discovery of a reacquire found no hook: OSError,
\* with no link opened, no failure logged and no pause.
C12_Witness ==
    /\ acq = [hook |-> "missing", failed |-> 0, logged |-> 0, paused |-> 0]
    /\ pc_r = "raised" /\ exc_r = "OSError" /\ nlinks = 1 /\ ~r_open

----------------------------------------------------------------------------
(* What the application gets *)

\* C13 as stated: a non-blocking get() on an empty out_queue yields a signal
\* that is no error: it differs from the None of an invalid line and is not of
\* the class raised for I/O errors, and both queues are as they were.
C13_NoDataIsNoError ==
    [][(Get(FALSE) /\ out_queue = <<>>) =>
           /\ got' # None
           /\ got'.kind # SocketError.kind
           /\ UNCHANGED <<in_queue, in_flushed, out_queue, out_flushed>>
      ]_vars

\* C13 as amended: a non-blocking get() on an empty out_queue raises
\* DAQIOError("Queue is empty"), an exception of the class raised for I/O
\* errors, told from a socket error by its message only; it differs from the
\* None of an invalid line, and both queues are as they were.
C13_NoDataRaisesDAQIOError ==
    [][(Get(FALSE) /\ out_queue = <<>>) =>
           /\ got' = RaisedWith("DAQIOError", "Queue is empty")
           /\ got'.kind = SocketError.kind
           /\ got' # SocketError
           /\ got' # None
           /\ UNCHANGED <<in_queue, in_flushed, out_queue, out_flushed>>
      ]_vars

\* C13 witness: a line was delivered, and the next get(), non-blocking on the
\* empty queue, raised.
C13_Witness ==
    /\ Len(delivered) = 1 /\ out_queue = <<>> /\ pushed # <<>>
    /\ got = RaisedWith("DAQIOError", "Queue is empty")

\* Is every character of the line before its trailing run of CR/LF in the
\* grammar
InGrammar(line) == \A i \in 1..LenWithoutLineEnd(line) : line[i] \in Grammar

\* C14: a get() that takes a line, from out_queue or from the socket, returns
\* None and logs one warning if the line fails the grammar, and returns the
\* line as it was queued or received and logs nothing if it passes; it raises
\* in neither case.
C14_AbsentOrUnchanged ==
    [][/\ ((\E block \in BOOLEAN : Get(block)) /\ out_flushed > 0) =>
              IF InGrammar(out_queue[1])
              THEN got' = Str(out_queue[1]) /\ warnings' = warnings
              ELSE got' = None /\ warnings' = warnings + 1
       /\ C_Get("ok") =>
              IF InGrammar(sock_down[1])
              THEN got' = Str(sock_down[1]) /\ warnings' = warnings
              ELSE got' = None /\ warnings' = warnings + 1
      ]_vars

\* C14 witness: DAQProvider.get took the rejected line ";1" and returned None
\* with one warning, then DAQClient.get returned the message "a2" as received.
C14_Witness ==
    /\ pushed = <<<<59, 49>>>> /\ out_queue = <<>> /\ sock_down = <<>>
    /\ delivered = <<None, Str(<<97, 50>>)>>
    /\ got = Str(<<97, 50>>)
    /\ warnings = 1

\* C15 as stated: data_available() is truthy if and only if a line the reader
\* pushed has not yet been removed by get().
C15_AvailableIffQueued ==
    Truthy(DataAvailable) <=> out_queue # <<>>

\* C15 as amended: data_available() is truthy only if a line the reader
\* pushed has not yet been removed by get(). Where qsize() works it is the
\* number of such lines, so truthy if and only if there is one; where it does
\* not, it is truthy if and only if a pushed line has reached the pipe get()
\* takes from, and false for a line pushed but still on its way there.
C15_AvailableOnlyIfQueued ==
    /\ Truthy(DataAvailable) => out_queue # <<>>
    /\ qsize_ok => (DataAvailable.type = "int" /\ DataAvailable.n = Len(out_queue))
    /\ ~qsize_ok => /\ DataAvailable.type = "bool"
                    /\ Truthy(DataAvailable) <=> out_flushed > 0
    /\ out_flushed <= Len(out_queue)

\* C15 witness: without qsize(), two lines are queued and not removed, one of
\* them in the pipe: data_available() is true.
C15_Witness ==
    /\ ~qsize_ok /\ Len(out_queue) = 2 /\ out_flushed = 1 /\ delivered = <<>>
    /\ Truthy(DataAvailable)

\* C29: a get() that returns a line or None takes exactly the oldest line of
\* out_queue, or the oldest message of the socket, off it, also when it
\* returns None for it: the lines behind it stay, in their order, and nothing
\* is put back; nothing else takes a line or a message off; a put() of the
\* client sends one message, the command; and data_available(), a function
\* of the state in both variants, shows a line or a message waiting as long
\* as no get() took it.
C29_GetConsumesOne ==
    /\ [][/\ delivered' # delivered =>
                /\ Len(delivered') = Len(delivered) + 1
                /\ \/ /\ out_flushed > 0
                      /\ out_queue' = Tail(out_queue)
                      /\ out_flushed' = out_flushed - 1
                      /\ got' = ValidateLine(Head(out_queue))
                      /\ sock_down' = sock_down
                   \/ /\ sock_down # <<>>
                      /\ sock_down' = Tail(sock_down)
                      /\ got' = ValidateLine(Head(sock_down))
                      /\ out_queue' = out_queue /\ out_flushed' = out_flushed
          /\ delivered' = delivered =>
                /\ out_queue' = out_queue \/ Len(out_queue') = Len(out_queue) + 1
                /\ SubSeq(out_queue', 1, Len(out_queue)) = out_queue
                /\ sock_down' = sock_down \/ Len(sock_down') = Len(sock_down) + 1
                /\ SubSeq(sock_down', 1, Len(sock_down)) = sock_down
          /\ nput' # nput =>
                /\ nput' = nput + 1
                /\ sock_up' = Append(sock_up, Command(nput', "plain"))
         ]_vars
    /\ [](C_DataAvailable = IF sock_down = <<>> THEN 0 ELSE 1)
    /\ [](Truthy(DataAvailable) => out_queue # <<>>)

\* C29 witness: the client's get() returned None for the rejected message
\* ";1" and the next get() the message "a2" behind it; the socket is empty
\* and one command was sent.
C29_Witness ==
    /\ delivered = <<None, Str(<<97, 50>>)>> /\ pushed = <<>> /\ emitted = 2
    /\ sock_down = <<>> /\ C_DataAvailable = 0
    /\ sock_up = <<Command(1, "plain")>>

----------------------------------------------------------------------------
(* The remote topology *)

\* C16: while the server runs (its flag stays set) and no I/O fault occurs,
\* both directions make progress: every message a client has sent is
\* eventually written to the serial link, and every record the card has sent
\* is eventually forwarded to the socket.
C16_BothDirectionsProgress ==
    [](running_r = 1 /\ faults = 0) =>
        /\ \A k \in 1..MaxPut : (nput >= k) ~> (WritesOf(k) = 1)
        /\ \A k \in 1..MaxEmit : (emitted >= k) ~> (Len(sock_down) >= k)

C18_MissingDependencyError ==
    ~ctor.zmq =>
        /\ ctor.client \in {"", "DAQMissingDependencyError"}
        /\ ctor.server \in {"", "DAQMissingDependencyError"}
        /\ "DAQMissingDependencyError" # SocketError.kind

----------------------------------------------------------------------------
(* Shutdown and waiting *)

\* The reader is about to set a sleep_time beyond the ones explored
AtEdge ==
    \/ pc_r = "if" /\ InWaiting = 0 /\ Grown(sleep_time)[2] > MaxExpShort
    \/ pc_r = "while" /\ InWaiting = 0 /\ Halved(sleep_time)[2] > MaxExpShort

\* C19: once its flag is cleared a worker's loop ends: the reader leaves
\* read() and the writer leaves write(), on every path of the loops. (A
\* reader at the edge of the explored sleep_times counts as having left.)
C19_CooperativeShutdown ==
    /\ (running_r = 0) ~> (pc_r \in {"done", "raised"} \/ AtEdge)
    /\ (running_w = 0) ~> (pc_w \in {"done", "raised"})

\* C20: no step of the server's loops waits without bound: wherever the
\* server's thread is in read() or in write(), it gets past that place, also
\* when the link is idle and the socket silent.
C20_NoLoopBlocks ==
    /\ \A p \in {"if", "while", "readline", "sleep"} :
           (pc_s = "read" /\ pc_r = p) ~> ~(pc_s = "read" /\ pc_r = p)
    /\ \A p \in {"write", "recv", "sleep"} :
           (pc_s = p) ~> (pc_s # p)

----------------------------------------------------------------------------
(* Reconnection *)

\* The reader is handling an I/O error: closing the link or inside
\* get_serial_port, its pauses included
InReconnect == pc_r \in {"except"} \cup InAcquire

\* The writer is inside its loop
WriterInLoop == pc_w \in {"loop", "qsize", "get", "mac", "sleep"}

----------------------------------------------------------------------------
(* Simulation *)

----------------------------------------------------------------------------
(* What each operation leaves alone *)

----------------------------------------------------------------------------
(* The cycles of the loops *)

\* C27: every write of the writer is the oldest queued command followed by
\* one CR; an empty in_queue raises nothing; and a cycle of write() ends: from
\* wherever the writer is in its drain, with or without qsize(), it reaches
\* the sleep of 100ms that ends the cycle, unless a write raised.
C27_WriterCycle ==
    /\ [][written' # written =>
              /\ in_queue # <<>>
              /\ in_queue' = Tail(in_queue)
              /\ written' = Append(written, [link |-> w_port, current |-> r_port,
                                             bytes |-> Head(in_queue) \o <<CR>>])
          ]_vars
    /\ [](exc_w \in {"", "SerialException"})
    /\ (pc_w \in {"qsize", "get", "mac"}) ~> (pc_w \in {"sleep", "raised"})


\* The text of the next line of rx: the bytes readline() returns, stripped
NextLine == Strip(SubSeq(rx, 1, ReadlineLen(rx)))

\* C28: an iteration of read() that finds pending bytes, in the reader and
\* in the server, drains the link before it touches sleep_time or sleeps:
\* each readline() is followed by one put() or one send() of that line, which
\* goes behind the lines read before it, and the drain ends only when
\* inWaiting() is 0, or with an I/O fault.
C28_DrainsAllLines ==
    [][/\ (pc_r = "if" /\ pc_r' = "while") => (InWaiting > 0 /\ sleep_time' = sleep_time)
       /\ (pc_r = "while" /\ pc_r' # "while") =>
              \/ pc_r' = "except"
              \/ pc_r' = "readline" /\ InWaiting > 0 /\ sleep_time' = sleep_time
              \/ pc_r' = "sleep" /\ InWaiting = 0
       /\ (pc_r = "readline" /\ pc_r' # "readline") =>
              \/ pc_r' = "except"
              \/ /\ pc_r' = "while"
                 /\ sleep_time' = sleep_time
                 /\ rx' = SubSeq(rx, ReadlineLen(rx) + 1, Len(rx))
                 /\ \/ /\ out_queue' = Append(out_queue, NextLine)
                       /\ pushed' = Append(pushed, NextLine)
                       /\ sock_down' = sock_down
                    \/ /\ sock_down' = Append(sock_down, NextLine)
                       /\ out_queue' = out_queue
      ]_vars

----------------------------------------------------------------------------
(* Construction *)

\* C24: constructing a connection raises SystemError if the serial
\* connection cannot be established: once an attempt to open the device
\* has failed, the SerialException is on its way out of get_serial_port or
\* the construction has ended with SystemError.
C24_SystemErrorIfNoLink ==
    acq.failed > 0 =>
        \/ pc_r = "raised" /\ exc_r = "SerialException"
        \/ ctor.conn = "SystemError"

\* C26: with zmq importable, the hook present and the device openable,
\* constructing the server completes: no exception leaves DAQServer.__init__.
C26_ServerConstructs ==
    ctor.zmq => ctor.server \in {"", "ok"}

----------------------------------------------------------------------------
(* The plots *)

\* C30: every series handed to ax.plot, by update_plot() and by reset(), has
\* at most max_length points, its x and y have the same length and so have
\* all the series of one call; and reset() leaves every cached list empty and
\* time_window 0.
C30_AtMostMaxLength ==
    /\ [](\A i \in 1..Len(canvas.drawn) :
              /\ Len(canvas.drawn[i].y) <= canvas.max_length
              /\ Len(canvas.drawn[i].x) = Len(canvas.drawn[i].y)
              /\ Len(canvas.drawn[i].y) = Len(canvas.drawn[1].y))
    /\ [][(canvas' # canvas /\ canvas'.updates = canvas.updates) =>
              /\ canvas'.time_window = 0
              /\ canvas'.time_data = <<>> /\ canvas'.trigger_data = <<>>
              /\ \A ch \in 1..4 : canvas'.channel_data[ch] = <<>>
              /\ \A i \in 1..Len(canvas'.drawn) :
                     canvas'.drawn[i] = [x |-> <<>>, y |-> <<>>]
          ]_vars

----------------------------------------------------------------------------
(* Faults and the lines already pushed *)

\* The line the reader makes of the k-th record when it reads it whole
LineOf(k) == ReaderItem(Record(k, "plain")).val

\* The records sent of which nothing is left to read that identifies them and
\* whose line was never pushed
RecordsLost ==
    {k \in 1..emitted : /\ \A i \in 1..Len(rx) : rx[i] # 48 + k
                        /\ \A i \in 1..Len(pushed) : pushed[i] # LineOf(k)}

\* Every line pushed and not yet taken by get() is queued, in the order of
\* the pushes
NothingRolledBack ==
    /\ Len(delivered) + Len(out_queue) = Len(pushed)
    /\ \A i \in 1..Len(out_queue) : out_queue[i] = pushed[Len(delivered) + i]

\* No record is pushed twice, and none after a later one
NothingReplayed ==
    \A i \in 1..Len(pushed) : \A j \in (i + 1)..Len(pushed) :
        (RecordOf(pushed[i]) # 0 /\ RecordOf(pushed[j]) # 0) =>
            RecordOf(pushed[i]) < RecordOf(pushed[j])

\* s is what is left of t with some characters taken off its front
IsSuffix(s, t) ==
    /\ Len(s) <= Len(t)
    /\ \A i \in 1..Len(s) : s[i] = t[Len(t) - Len(s) + i]

----------------------------------------------------------------------------
(* Records that arrive in parts *)

\* The item is what the reader makes of one whole record the card sent
IsWholeRecord(item) ==
    \E k \in 1..emitted : \E shape \in Shapes : ReaderItem(Record(k, shape)) = Str(item)

\* C32: every item the reader pushes is one whole record, terminator
\* included, that the card sent, and no record is behind two items: a record
\* whose bytes arrive in parts, the rest later than the read timeout of 0.5 s,
\* is not pushed as a fragment and not split.
C32_WholeRecordsOnly ==
    /\ \A i \in 1..Len(pushed) : IsWholeRecord(pushed[i])
    /\ \A i \in 1..Len(pushed) : \A j \in (i + 1)..Len(pushed) :
           RecordOf(pushed[i]) < RecordOf(pushed[j])

----------------------------------------------------------------------------
(* The registry of open files *)

\* The instance has a file: open() succeeded on it and no close() came after
IsOpen(i) == wrapped.instances[i].file = "file"

\* C33: after any calls of open() and close() on any instances, two of the
\* same filename among them, get_open_files() is the set of the filenames
\* with an instance that is open, closed is true of the instances that are
\* not open and of no other, and close() on an instance that is not open
\* raises and leaves the registry as it is.
C33_RegistryExact ==
    /\ [](/\ get_open_files =
                {wrapped.instances[i].filename :
                     i \in {j \in 1..Len(wrapped.instances) : IsOpen(j)}}
          /\ \A i \in 1..Len(wrapped.instances) : closed(i) <=> ~IsOpen(i))
    /\ [][\A i \in 1..Len(wrapped.instances) :
              (closed(i) /\ close(i)) =>
                  /\ wrapped'.raised # ""
                  /\ wrapped'.open_files = wrapped.open_files]_vars

----------------------------------------------------------------------------
(* Both directions *)

\* The links the workers of the connection hold open: the reader's, and the
\* one the writer's process has, which no step of the writer closes
LinksHeld ==
    {l \in {r_port} : r_open} \cup {l \in {w_port} : pc_w # "unstarted"}

\* C25: one link is bound to the connection at every moment: the reader opens
\* a new link only with its old one closed, and every link a worker holds
\* open is the newest one, so the workers together never hold two links or
\* one that a reconnect replaced.
C25_OneLinkBound ==
    /\ [][nlinks' # nlinks => (nlinks' = nlinks + 1 /\ ~r_open)]_vars
    /\ [](LinksHeld \subseteq {nlinks})

\* C10: after an I/O fault and a successful reacquire both workers operate on
\* the current link: every command is written to the link that the reader
\* holds at that moment.
C10_WritesOnCurrentLink ==
    \A i \in 1..Len(written) : written[i].link = written[i].current

====
